---- MODULE Spec2Model ----
(***************************************************************************)
(* SyncCollidersToPhysicsSystem (src/systems/sync_colliders_to_physics.rs) *)
(* as a state machine: the Position and PhysicsCollider flagged storages,  *)
(* their event channels as seen by the system's two reader ids, the        *)
(* Physics resource (collider_handles, body_handles, world) and the        *)
(* system's run pass with add_collider / update_collider / remove_collider.*)
(***************************************************************************)
EXTENDS Integers, Sequences, FiniteSets, TLC

\* ---------------------------------------------------------------- bounds
NumIdx == 2
NumBodies == 1

NumEngines == 2
MaxLog == 4
MaxTicks == 2

Index == 1..NumIdx
\* the entities that the body system gives a rigid body
BodyIdx == {i \in Index : i <= NumBodies}

\* ------------------------------------------------------- Option<T> values
None == <<>>
Some(x) == <<x>>
IsSome(o) == o # None
Unwrap(o) == o[1]

\* --------------------------------------------------------- value domains
PosVals == {<<1, 1, 1>>, <<2, 3, 4>>}
\* the position the game code of Spec gives an entity (tests::add_collider)
GamePosVals == {<<1, 1, 1>>}
OffVals == {<<10, 20, 30>>}
GroupVals == {"g1", "g2"}
ShapeVals == {"circle"}
MaterialVals == {"basic"}

VecAdd(a, b) == <<a[1] + b[1], a[2] + b[2], a[3] + b[3]>>

\* a freshly built PhysicsCollider component: no handle cached yet
PhysicsColliderBuilder(shape, off, groups) ==
    [shape |-> shape, material |-> CHOOSE m \in MaterialVals : TRUE,
     offset_from_parent |-> off, collision_groups |-> groups, handle |-> None]

VARIABLES
    positions,                  \* Index -> Option<P>  (FlaggedStorage<P>)
    parent_entities,            \* Index -> Option<Index>  (PhysicsParent)
    physics_colliders,          \* Index -> Option<PhysicsCollider>
    positions_channel,          \* events not yet read by positions_reader_id
    physics_colliders_channel,  \* events not yet read by physics_colliders_reader_id
    physics,                    \* the Physics resource
    fault,                      \* "none" or the panic that ended the process
    step,                       \* kind of the last step taken
    ops,                        \* operations the last run invoked, per index
    cascaded,                   \* handles whose collider the world removed with its body
    channels,                   \* the two event channels as sequences of events
    reader_ids,                 \* per registered reader: events of each channel read so far
    delivered,                  \* per system: the batches each of its passes was handed
    engine                      \* the system that made the last pass

\* the channels themselves and their readers; the specifications that keep
\* each reader's unread batch folded (positions_channel,
\* physics_colliders_channel) leave them alone
cursorVars == <<channels, reader_ids, delivered, engine>>

vars == <<positions, parent_entities, physics_colliders, positions_channel,
          physics_colliders_channel, physics, fault, step, ops, cascaded,
          channels, reader_ids, delivered, engine>>

NoOps == [i \in Index |-> <<>>]
\* ------------------------------------------------------- the physics world
\* Colliders live in a slab: a handle is a slot number, a removed slot is
\* vacant and is handed out again (most recently vacated first).
EmptyWorld == [colliders |-> <<>>, free |-> <<>>, bodies |-> {}]

\* world.collider(handle)
world_collider(world, h) ==
    IF h \in 1..Len(world.colliders) THEN world.colliders[h] ELSE None

LiveHandles(world) == {h \in 1..Len(world.colliders) : IsSome(world.colliders[h])}

\* world.colliders().count()
colliders_count(world) == Cardinality(LiveHandles(world))

\* world.rigid_body(handle)
rigid_body(world, b) == IF b \in world.bodies THEN Some(b) ELSE None

\* BodyPartHandle::ground() and body.part_handle()
ground == None
part_handle(b) == Some(b)
is_ground(p) == p = ground

NextHandle(world) ==
    IF world.free # <<>> THEN Head(world.free) ELSE Len(world.colliders) + 1

\* ColliderDesc::build_with_parent: the collider is stored under NextHandle
build_with_parent(world, c) ==
    IF world.free # <<>>
    THEN [world EXCEPT !.colliders[Head(world.free)] = Some(c),
                       !.free = Tail(world.free)]
    ELSE [world EXCEPT !.colliders = Append(world.colliders, Some(c))]

\* the slot of an existing collider is vacated
VacateCollider(world, h) ==
    [world EXCEPT !.colliders[h] = None, !.free = <<h>> \o world.free]

\* collider_world.set_collision_groups on an existing collider
set_collision_groups(world, h, groups) ==
    [world EXCEPT !.colliders[h] = Some([Unwrap(world.colliders[h]) EXCEPT
                                            !.collision_groups = groups])]

\* A resolution that goes on to the related entity when the own body is gone.
parent_part_handle_FallThrough(id, parent_entity, phys) ==
    IF /\ IsSome(phys.body_handles[id])
       /\ IsSome(rigid_body(phys.world, Unwrap(phys.body_handles[id])))
    THEN part_handle(Unwrap(phys.body_handles[id]))
    ELSE IF /\ IsSome(parent_entity)
            /\ IsSome(phys.body_handles[Unwrap(parent_entity)])
            /\ IsSome(rigid_body(phys.world,
                                 Unwrap(phys.body_handles[Unwrap(parent_entity)])))
         THEN part_handle(Unwrap(phys.body_handles[Unwrap(parent_entity)]))
         ELSE ground

\* ------------------------------------------------------------ add_collider
\* lines 154-178: the parent of the new collider
parent_part_handle(id, parent_entity, phys) ==
    IF IsSome(phys.body_handles[id])
    THEN IF IsSome(rigid_body(phys.world, Unwrap(phys.body_handles[id])))
         THEN part_handle(Unwrap(phys.body_handles[id]))
         ELSE ground
    ELSE IF IsSome(parent_entity)
         THEN IF IsSome(phys.body_handles[Unwrap(parent_entity)])
              THEN IF IsSome(rigid_body(phys.world,
                                        Unwrap(phys.body_handles[Unwrap(parent_entity)])))
                   THEN part_handle(Unwrap(phys.body_handles[Unwrap(parent_entity)]))
                   ELSE ground
              ELSE ground
         ELSE ground

\* A placement that forgets the Position of a collider on ground.
translation_OffsetOnly(parent, position, physics_collider) ==
    physics_collider.offset_from_parent

\* lines 183-197
translation(parent, position, physics_collider) ==
    IF is_ground(parent)
    THEN VecAdd(position, physics_collider.offset_from_parent)
    ELSE physics_collider.offset_from_parent

\* A creation that does not cache the handle on the component (line 214).
AddBuild_NoCache(id, parent_entity, position, phys, physics_collider) ==
    LET parent == parent_part_handle(id, parent_entity, phys)
        c == [shape |-> physics_collider.shape,
              material |-> physics_collider.material,
              translation |-> translation(parent, position, physics_collider),
              collision_groups |-> physics_collider.collision_groups,
              parent |-> parent,
              user_data |-> id]
        handle == NextHandle(phys.world)
    IN [physics |-> [phys EXCEPT !.world = build_with_parent(phys.world, c),
                                 !.collider_handles[id] = Some(handle)],
        physics_collider |-> physics_collider,
        fault |-> "none"]

\* A creation that registers the handle of a new slot even when the world
\* re-used a vacant one.
AddBuild_SequentialHandle(id, parent_entity, position, phys, physics_collider) ==
    LET parent == parent_part_handle(id, parent_entity, phys)
        c == [shape |-> physics_collider.shape,
              material |-> physics_collider.material,
              translation |-> translation(parent, position, physics_collider),
              collision_groups |-> physics_collider.collision_groups,
              parent |-> parent,
              user_data |-> id]
        handle == Len(phys.world.colliders) + 1
    IN [physics |-> [phys EXCEPT !.world = build_with_parent(phys.world, c),
                                 !.collider_handles[id] = Some(handle)],
        physics_collider |-> [physics_collider EXCEPT !.handle = Some(handle)],
        fault |-> "none"]

\* lines 199-215, once the orphaned handle is out of the way
AddBuild(id, parent_entity, position, phys, physics_collider) ==
    LET parent == parent_part_handle(id, parent_entity, phys)
        c == [shape |-> physics_collider.shape,
              material |-> physics_collider.material,
              translation |-> translation(parent, position, physics_collider),
              collision_groups |-> physics_collider.collision_groups,
              parent |-> parent,
              user_data |-> id]
        handle == NextHandle(phys.world)
    IN [physics |-> [phys EXCEPT !.world = build_with_parent(phys.world, c),
                                 !.collider_handles[id] = Some(handle)],
        physics_collider |-> [physics_collider EXCEPT !.handle = Some(handle)],
        fault |-> "none"]

\* A declined construction that is passed over: nothing built, no panic.
AddBuildUnwrap_Skip(id, parent_entity, position, phys, physics_collider, refused) ==
    IF refused
    THEN [physics |-> phys, physics_collider |-> physics_collider, fault |-> "none"]
    ELSE AddBuild(id, parent_entity, position, phys, physics_collider)

\* lines 200-211: build_with_parent(...).unwrap(); refused says that the
\* world declines to construct the collider (None), which the unwrap turns
\* into a panic before anything is cached or registered
AddBuildUnwrap(id, parent_entity, position, phys, physics_collider, refused) ==
    IF refused
    THEN [physics |-> phys, physics_collider |-> physics_collider,
          fault |-> "unwrap_on_refused_build"]
    ELSE AddBuild(id, parent_entity, position, phys, physics_collider)

\* An orphan removal that clears the id's body entry along with its collider
\* entry.
add_collider_ClearsBody(id, parent_entity, position, phys, physics_collider, refused) ==
    IF IsSome(phys.collider_handles[id])
    THEN LET handle == Unwrap(phys.collider_handles[id])
             p1 == [phys EXCEPT !.collider_handles[id] = None,
                                !.body_handles[id] = None]
         IN IF IsSome(world_collider(phys.world, handle))
            THEN AddBuildUnwrap(id, parent_entity, position,
                                [p1 EXCEPT !.world = VacateCollider(phys.world, handle)],
                                physics_collider, refused)
            ELSE [physics |-> p1, physics_collider |-> physics_collider,
                  fault |-> "remove_nonexistent_collider"]
    ELSE AddBuildUnwrap(id, parent_entity, position, phys, physics_collider, refused)

add_collider(id, parent_entity, position, phys, physics_collider, refused) ==
    IF IsSome(phys.collider_handles[id])
    THEN LET handle == Unwrap(phys.collider_handles[id])
             p1 == [phys EXCEPT !.collider_handles[id] = None]
         IN IF IsSome(world_collider(phys.world, handle))
            THEN AddBuildUnwrap(id, parent_entity, position,
                                [p1 EXCEPT !.world = VacateCollider(phys.world, handle)],
                                physics_collider, refused)
            ELSE \* remove_colliders of a collider the world no longer has
                 [physics |-> p1, physics_collider |-> physics_collider,
                  fault |-> "remove_nonexistent_collider"]
    ELSE AddBuildUnwrap(id, parent_entity, position, phys, physics_collider, refused)

\* An update that also re-derives the placement from the component.
update_collider_Placement(id, phys, physics_collider, strict) ==
    IF ~IsSome(physics_collider.handle)
    THEN [physics |-> phys, fault |-> "unwrap_on_none_handle"]
    ELSE LET h == Unwrap(physics_collider.handle)
         IN IF IsSome(world_collider(phys.world, h))
            THEN [physics |-> [phys EXCEPT !.world.colliders[h] =
                      Some([Unwrap(phys.world.colliders[h]) EXCEPT
                               !.collision_groups = physics_collider.collision_groups,
                               !.translation = physics_collider.offset_from_parent])],
                  fault |-> "none"]
            ELSE [physics |-> phys,
                  fault |-> IF strict THEN "set_groups_nonexistent_collider"
                                      ELSE "none"]

\* --------------------------------------------------------- update_collider
\* strict: whether the engine faults on a handle it does not know
update_collider(id, phys, physics_collider, strict) ==
    IF ~IsSome(physics_collider.handle)
    THEN [physics |-> phys, fault |-> "unwrap_on_none_handle"]
    ELSE LET h == Unwrap(physics_collider.handle)
         IN IF IsSome(world_collider(phys.world, h))
            THEN [physics |-> [phys EXCEPT !.world =
                      set_collision_groups(phys.world, h,
                                           physics_collider.collision_groups)],
                  fault |-> "none"]
            ELSE [physics |-> phys,
                  fault |-> IF strict THEN "set_groups_nonexistent_collider"
                                      ELSE "none"]

\* --------------------------------------------------------- remove_collider
\* A removal that looks for the collider first and leaves when it is gone.
remove_collider_EarlyReturn(id, phys) ==
    IF IsSome(phys.collider_handles[id])
    THEN LET handle == Unwrap(phys.collider_handles[id])
             p1 == [phys EXCEPT !.collider_handles[id] = None]
         IN IF IsSome(world_collider(phys.world, handle))
            THEN [p1 EXCEPT !.world = VacateCollider(phys.world, handle)]
            ELSE phys
    ELSE phys

remove_collider(id, phys) ==
    IF IsSome(phys.collider_handles[id])
    THEN LET handle == Unwrap(phys.collider_handles[id])
             p1 == [phys EXCEPT !.collider_handles[id] = None]
         IN IF IsSome(world_collider(phys.world, handle))
            THEN [p1 EXCEPT !.world = VacateCollider(phys.world, handle)]
            ELSE p1
    ELSE phys

\* ------------------------------------------------ iterate_component_events
\* A channel is kept as the batch its reader has not drained yet, folded per
\* id the way iterate_component_events folds it: an insert stays an insert
\* under later modifications, and of an insert and a removal the later one
\* stands.  EventClass is the fold step for one more event of an id.
EventClass(prev, kind) ==
    IF kind = "Modified"
    THEN (IF prev = "Inserted" THEN "Inserted" ELSE "Modified")
    ELSE kind

\* channel.single_write(ComponentEvent::kind(id))
single_write(channel, kind, id) ==
    [channel EXCEPT ![id] = EventClass(@, kind)]

EmptyChannel == [i \in Index |-> "none"]

iterate_component_events(channel) ==
    [inserted |-> {id \in Index : channel[id] = "Inserted"},
     modified |-> {id \in Index : channel[id] = "Modified"},
     removed  |-> {id \in Index : channel[id] = "Removed"}]

\* --------------------------------------------------------------------- run
\* lines 67-72: the union of the six event sets
EventUnion(pe, ce) ==
    pe.inserted \cup pe.modified \cup pe.removed
        \cup ce.inserted \cup ce.modified \cup ce.removed

\* lines 63-75: the ids the join yields
\* A join that asks for the Position only of the ids it creates.
Joined_PositionForCreate(pos, cols, pe, ce) ==
    {id \in EventUnion(pe, ce) :
        /\ IsSome(cols[id])
        /\ (IsSome(pos[id]) \/ id \notin pe.inserted \cup ce.inserted)}

Joined(pos, cols, pe, ce) ==
    {id \in EventUnion(pe, ce) : IsSome(pos[id]) /\ IsSome(cols[id])}

\* lines 63-75: the join hands out the collider of id through get_mut of
\* its flagged storage, which records Modified(id)
JoinGetMut(st, id) ==
    [st EXCEPT !.channel = single_write(st.channel, "Modified", id)]

\* lines 76-98: the loop body for one id; each value is computed once and
\* handed on (v \in {e} binds v to the value of e)
RunBody(st, id, pos, parents, pe, ce, strict, refused) ==
    CHOOSE s3 \in
      {IF s2.fault = "none" /\ (id \in pe.removed \/ id \in ce.removed)
       THEN [s2 EXCEPT !.physics = remove_collider(id, s2.physics),
                       !.ops[id] = Append(s2.ops[id], "remove")]
       ELSE s2 :
       s2 \in
        {IF s1.fault = "none" /\ (id \in pe.modified \/ id \in ce.modified)
         THEN CHOOSE t \in
                {[s1 EXCEPT !.physics = r.physics,
                            !.ops[id] = Append(s1.ops[id], "update"),
                            !.fault = r.fault] :
                 r \in {update_collider(id, s1.physics,
                                        Unwrap(s1.physics_colliders[id]), strict)}} : TRUE
         ELSE s1 :
         s1 \in
          {IF id \in pe.inserted \/ id \in ce.inserted
           THEN CHOOSE t \in
                  {[s0 EXCEPT !.physics = r.physics,
                              !.physics_colliders[id] = Some(r.physics_collider),
                              !.ops[id] = Append(s0.ops[id], "add"),
                              !.fault = r.fault] :
                   r \in {add_collider(id, parents[id], Unwrap(pos[id]), s0.physics,
                                       Unwrap(s0.physics_colliders[id]),
                                       id \in refused)}} : TRUE
           ELSE s0 :
           s0 \in {JoinGetMut(st, id)}}}} : TRUE

\* the join visits ids in ascending order; a panic ends the pass
RECURSIVE RunLoop(_, _, _, _, _, _, _, _)
RunLoop(st, ids, pos, parents, pe, ce, strict, refused) ==
    IF ids = {} \/ st.fault # "none" THEN st
    ELSE CHOOSE out \in
           {RunLoop(nxt, ids \ {id}, pos, parents, pe, ce, strict, refused) :
              <<id, nxt>> \in
                {<<i, RunBody(st, i, pos, parents, pe, ce, strict, refused)>> :
                    i \in {j \in ids : \A k \in ids : j <= k}}} : TRUE

\* strict and refused are the outcomes of the world this pass meets: whether
\* set_collision_groups on a missing collider faults, and for which ids the
\* world declines construction
run(strict, refused) ==
    /\ fault = "none"
    /\ \E pe \in {iterate_component_events(positions_channel)},
          ce \in {iterate_component_events(physics_colliders_channel)} :
         \E st \in {RunLoop([physics |-> physics,
                             physics_colliders |-> physics_colliders,
                             channel |-> EmptyChannel, ops |-> NoOps,
                             fault |-> "none"],
                            Joined(positions, physics_colliders, pe, ce),
                            positions, parent_entities, pe, ce, strict, refused)} :
            /\ physics' = st.physics
            /\ physics_colliders' = st.physics_colliders
            /\ physics_colliders_channel' = st.channel
            /\ positions_channel' = EmptyChannel
            /\ ops' = st.ops
            /\ fault' = st.fault
            /\ cascaded' = cascaded \ LiveHandles(st.physics.world)
    /\ step' = "run"
    /\ UNCHANGED <<positions, parent_entities>>
    /\ UNCHANGED cursorVars

\* ------------------------------------------------------ game code, storages
\* Storage::insert on the Position storage: a present component is swapped
\* through get_mut (Modified), an absent one is inserted (Inserted).
\* Position::set_position through get_mut is the same as the swap.
InsertPosition(id, v) ==
    /\ fault = "none"
    /\ positions' = [positions EXCEPT ![id] = Some(v)]
    /\ positions_channel' = single_write(positions_channel,
           IF IsSome(positions[id]) THEN "Modified" ELSE "Inserted", id)
    /\ step' = "edit" /\ ops' = NoOps
    /\ UNCHANGED cursorVars
    /\ UNCHANGED <<parent_entities, physics_colliders, physics_colliders_channel,
                   physics, fault, cascaded>>

RemovePosition(id) ==
    /\ fault = "none"
    /\ IsSome(positions[id])
    /\ positions' = [positions EXCEPT ![id] = None]
    /\ positions_channel' = single_write(positions_channel, "Removed", id)
    /\ step' = "edit" /\ ops' = NoOps
    /\ UNCHANGED cursorVars
    /\ UNCHANGED <<parent_entities, physics_colliders, physics_colliders_channel,
                   physics, fault, cascaded>>

\* Storage::insert of a newly built PhysicsCollider (replaces a present one)
InsertCollider(id, c) ==
    /\ fault = "none"
    /\ physics_colliders' = [physics_colliders EXCEPT ![id] = Some(c)]
    /\ physics_colliders_channel' = single_write(physics_colliders_channel,
           IF IsSome(physics_colliders[id]) THEN "Modified" ELSE "Inserted", id)
    /\ step' = "edit" /\ ops' = NoOps
    /\ UNCHANGED cursorVars
    /\ UNCHANGED <<positions, parent_entities, positions_channel, physics, fault, cascaded>>

\* get_mut on a present PhysicsCollider, writing its collision_groups
SetCollisionGroups(id, g) ==
    /\ fault = "none"
    /\ IsSome(physics_colliders[id])
    /\ physics_colliders' = [physics_colliders EXCEPT ![id] =
           Some([Unwrap(physics_colliders[id]) EXCEPT !.collision_groups = g])]
    /\ physics_colliders_channel' =
           single_write(physics_colliders_channel, "Modified", id)
    /\ step' = "edit" /\ ops' = NoOps
    /\ UNCHANGED cursorVars
    /\ UNCHANGED <<positions, parent_entities, positions_channel, physics, fault, cascaded>>

RemoveCollider(id) ==
    /\ fault = "none"
    /\ IsSome(physics_colliders[id])
    /\ physics_colliders' = [physics_colliders EXCEPT ![id] = None]
    /\ physics_colliders_channel' =
           single_write(physics_colliders_channel, "Removed", id)
    /\ step' = "edit" /\ ops' = NoOps
    /\ UNCHANGED cursorVars
    /\ UNCHANGED <<positions, parent_entities, positions_channel, physics, fault, cascaded>>

\* PhysicsParent is an unflagged storage: no event
SetParent(id, p) ==
    /\ fault = "none"
    /\ id # p
    /\ parent_entities[id] # Some(p)
    /\ parent_entities' = [parent_entities EXCEPT ![id] = Some(p)]
    /\ step' = "edit" /\ ops' = NoOps
    /\ UNCHANGED cursorVars
    /\ UNCHANGED <<positions, physics_colliders, positions_channel,
                   physics_colliders_channel, physics, fault, cascaded>>

\* ------------------------------------------------- bodies (not this system)
\* A rigid body appears for id; its handle is registered in body_handles.
AddBody(id) ==
    /\ fault = "none"
    /\ ~IsSome(physics.body_handles[id])
    /\ id \notin physics.world.bodies
    /\ physics' = [physics EXCEPT !.body_handles[id] = Some(id),
                                  !.world.bodies = @ \cup {id}]
    /\ step' = "edit" /\ ops' = NoOps
    /\ UNCHANGED cursorVars
    /\ UNCHANGED <<positions, parent_entities, physics_colliders, positions_channel,
                   physics_colliders_channel, fault, cascaded>>

RECURSIVE VacateAll(_, _)
VacateAll(world, hs) ==
    IF hs = <<>> THEN world ELSE VacateAll(VacateCollider(world, Head(hs)), Tail(hs))

Attached(world, b) ==
    {h \in LiveHandles(world) : Unwrap(world.colliders[h]).parent = part_handle(b)}

Orders(S) == {s \in [1..Cardinality(S) -> S] : \A i, j \in DOMAIN s : s[i] = s[j] => i = j}

\* The world removes body b and, with it, every collider attached to it;
\* dereg: whether the body's entry leaves body_handles as well.
RemoveBody(b, dereg) ==
    /\ fault = "none"
    /\ b \in physics.world.bodies
    /\ \E order \in Orders(Attached(physics.world, b)) :
         physics' = [physics EXCEPT
             !.world = [VacateAll(physics.world, order) EXCEPT !.bodies = @ \ {b}],
             !.body_handles[b] = IF dereg THEN None ELSE @]
    /\ cascaded' = cascaded \cup Attached(physics.world, b)
    /\ step' = "edit" /\ ops' = NoOps
    /\ UNCHANGED cursorVars
    /\ UNCHANGED <<positions, parent_entities, physics_colliders, positions_channel,
                   physics_colliders_channel, fault>>

\* ------------------------------------------------------------------- setup
\* the systems that run over the same storages, each with its own fields
Engines == 1..NumEngines

\* the two flagged storages
Stores == {"positions", "physics_colliders"}

\* The reader every system is given.
register_reader_Shared(e) == 1

\* lines 109-116: in setup every system registers a reader of its own on each
\* storage and keeps it in its own fields (lines 27-33)
register_reader(e) == e

\* lines 102-117: nothing recorded, every reader at the start of its channel
setup ==
    /\ channels = [s \in Stores |-> <<>>]
    /\ reader_ids = [r \in Engines |-> [s \in Stores |-> 0]]
    /\ delivered = [e \in Engines |-> [s \in Stores |-> <<>>]]
    /\ engine = 0

\* Physics::default and the two freshly registered readers: nothing to read
Init ==
    /\ positions = [i \in Index |-> None]
    /\ parent_entities = [i \in Index |-> None]
    /\ physics_colliders = [i \in Index |-> None]
    /\ positions_channel = EmptyChannel
    /\ physics_colliders_channel = EmptyChannel
    /\ physics = [collider_handles |-> [i \in Index |-> None],
                  body_handles |-> [i \in Index |-> None],
                  world |-> EmptyWorld]
    /\ fault = "none"
    /\ step = "setup"
    /\ ops = NoOps
    /\ cascaded = {}
    /\ setup

Next ==
    \/ \E strict \in BOOLEAN, refused \in SUBSET Index : run(strict, refused)
    \/ \E id \in Index, v \in GamePosVals : InsertPosition(id, v)
    \/ \E id \in Index : RemovePosition(id)
    \/ \E id \in Index, s \in ShapeVals, o \in OffVals, g \in GroupVals :
          InsertCollider(id, PhysicsColliderBuilder(s, o, g))
    \/ \E id \in Index, g \in GroupVals : SetCollisionGroups(id, g)
    \/ \E id \in Index : RemoveCollider(id)
    \/ \E id \in Index, p \in BodyIdx : SetParent(id, p)
    \/ \E id \in BodyIdx : AddBody(id)
    \/ \E b \in BodyIdx, dereg \in BOOLEAN : RemoveBody(b, dereg)

Spec == Init /\ [][Next]_vars

\* ================================================================== claims
\* what the next run will read from the two channels
PE == iterate_component_events(positions_channel)
CE == iterate_component_events(physics_colliders_channel)

\* a step that is a completed pass of run
RunStep == step' = "run" /\ fault' = "none"

\* in how many of the six event sets id is
EventSetCount(id) ==
    Cardinality({k \in 1..6 :
        id \in <<PE.inserted, PE.modified, PE.removed,
                 CE.inserted, CE.modified, CE.removed>>[k]})

\* the operation the priority insert > modify > remove selects for id
PriorityOp(id) ==
    IF id \in PE.inserted \cup CE.inserted THEN "add"
    ELSE IF id \in PE.modified \cup CE.modified THEN "update"
    ELSE "remove"

\* C1: in any run, an index the join yields that is in more than one of the
\* six event sets has exactly one of add_collider, update_collider,
\* remove_collider invoked for it, the one the priority insert > modify >
\* remove selects.
C1_SingleDispatch ==
    [][RunStep =>
         \A id \in Joined(positions, physics_colliders, PE, CE) :
             EventSetCount(id) > 1 => ops'[id] = <<PriorityOp(id)>>]_vars

\* C2: when the Position or the PhysicsCollider of an index with a registered
\* collider handle has been removed, the next run invokes remove_collider for
\* the index and leaves collider_handles without an entry for it.
C2_RemovalPropagated ==
    [][RunStep =>
         \A id \in Index :
             (/\ IsSome(physics.collider_handles[id])
              /\ id \in PE.removed \cup CE.removed)
             => (/\ \E k \in DOMAIN ops'[id] : ops'[id][k] = "remove"
                 /\ physics'.collider_handles[id] = None)]_vars

\* C3: a run that directly follows a run (no component is touched between
\* the two) invokes no add_collider, update_collider or remove_collider.
C3_IdempotentEmptyTick ==
    [][(step = "run" /\ RunStep) => ops' = NoOps]_vars
\* the indices for which the next run invokes add_collider
Adds == {id \in Joined(positions, physics_colliders, PE, CE) :
            id \in PE.inserted \cup CE.inserted}

\* the indices for which the next run invokes remove_collider
Removes == {id \in Joined(positions, physics_colliders, PE, CE) :
               id \in PE.removed \cup CE.removed}

Registered(phys) == {id \in Index : IsSome(phys.collider_handles[id])}

\* C4: a run in which a fresh entity E (Position, newly built PhysicsCollider,
\* no PhysicsParent, no registered handle) is the one inserted entity leaves
\* collider_handles with a handle for E that is cached on E's PhysicsCollider
\* and is a collider of the world, and the world has exactly one collider
\* more than before (from an empty world: one registered handle, one collider).
C4_CreatePopulatesRegistry ==
    [][RunStep =>
         \A E \in Index :
             (/\ Adds = {E} /\ Removes = {}
              /\ parent_entities[E] = None
              /\ ~IsSome(physics.collider_handles[E])
              /\ ~IsSome(Unwrap(physics_colliders[E]).handle))
             => (/\ IsSome(physics'.collider_handles[E])
                 /\ Unwrap(physics_colliders'[E]).handle = physics'.collider_handles[E]
                 /\ IsSome(world_collider(physics'.world,
                                          Unwrap(physics'.collider_handles[E])))
                 /\ colliders_count(physics'.world) = colliders_count(physics.world) + 1
                 /\ (Registered(physics) = {} /\ colliders_count(physics.world) = 0
                       => /\ Cardinality(Registered(physics')) = 1
                          /\ colliders_count(physics'.world) = 1))]_vars

C4_Witness ==
    /\ step = "run" /\ fault = "none"
    /\ \E E \in Index :
         /\ ops[E] = <<"add">>
         /\ parent_entities[E] = None
         /\ Registered(physics) = {E}
         /\ Unwrap(physics_colliders[E]).handle = physics.collider_handles[E]
         /\ colliders_count(physics.world) = 1

\* C5: the world is never asked to remove a collider it no longer has, neither
\* by remove_collider nor by the orphaned-handle removal of add_collider.
C5_NoRemovalOfVanished == fault # "remove_nonexistent_collider"

C9_UpdateHasHandle == fault # "unwrap_on_none_handle"

\* the handles the next run's update_collider calls address
UpdateTargets ==
    {Unwrap(Unwrap(physics_colliders[id]).handle) :
        id \in {j \in Joined(positions, physics_colliders, PE, CE) :
                   /\ j \in PE.modified \cup CE.modified
                   /\ IsSome(Unwrap(physics_colliders[j]).handle)}}

\* the only pending events are modifications of PhysicsCollider components
OnlyColliderModified ==
    /\ PE.inserted = {} /\ PE.modified = {} /\ PE.removed = {}
    /\ CE.inserted = {} /\ CE.removed = {}
    /\ CE.modified # {}

\* q is p but for the collision_groups of the colliders under the handles T
SameButGroups(p, q, T) ==
    /\ q.collider_handles = p.collider_handles
    /\ q.body_handles = p.body_handles
    /\ q.world.bodies = p.world.bodies
    /\ q.world.free = p.world.free
    /\ Len(q.world.colliders) = Len(p.world.colliders)
    /\ \A h \in 1..Len(p.world.colliders) :
         IF h \in T /\ IsSome(p.world.colliders[h])
         THEN /\ IsSome(q.world.colliders[h])
              /\ [Unwrap(q.world.colliders[h]) EXCEPT !.collision_groups = "any"]
                   = [Unwrap(p.world.colliders[h]) EXCEPT !.collision_groups = "any"]
         ELSE q.world.colliders[h] = p.world.colliders[h]

InitAdd ==
    /\ positions \in [Index -> {Some(v) : v \in PosVals}]
    /\ parent_entities \in [Index -> {None} \cup {Some(p) : p \in Index}]
    /\ \A id \in Index : parent_entities[id] # Some(id)
    /\ physics_colliders \in
         [Index -> {Some(PhysicsColliderBuilder(s, o, g)) :
                       s \in ShapeVals, o \in OffVals, g \in GroupVals}]
    /\ positions_channel = [i \in Index |-> "Inserted"]
    /\ physics_colliders_channel = [i \in Index |-> "Inserted"]
    /\ \E reg \in SUBSET Index : \E live \in SUBSET reg :
         physics = [collider_handles |-> [i \in Index |-> None],
                    body_handles |-> [i \in Index |-> IF i \in reg THEN Some(i) ELSE None],
                    world |-> [EmptyWorld EXCEPT !.bodies = live]]
    /\ fault = "none"
    /\ step = "setup"
    /\ ops = NoOps
    /\ cascaded = {}
    /\ setup

NextAdd == \E strict \in BOOLEAN, refused \in SUBSET Index : run(strict, refused)

SpecAdd == InitAdd /\ [][NextAdd]_vars

\* the last run invoked add_collider for id and completed
Added(id) ==
    /\ step = "run" /\ fault = "none"
    /\ ops[id] # <<>> /\ ops[id][1] = "add"
    /\ IsSome(physics.collider_handles[id])
    /\ IsSome(world_collider(physics.world, Unwrap(physics.collider_handles[id])))

\* the collider registered for id
ColliderOf(id) == Unwrap(world_collider(physics.world, Unwrap(physics.collider_handles[id])))

\* index i has a registered body handle whose body the world still has
BodyLive(i) ==
    /\ IsSome(physics.body_handles[i])
    /\ Unwrap(physics.body_handles[i]) \in physics.world.bodies

\* C7 as claimed: the own body if registered and alive; otherwise the related
\* entity's body if there is a PhysicsParent and that body is registered and
\* alive; otherwise ground.
ClaimedParent(id) ==
    IF BodyLive(id) THEN part_handle(Unwrap(physics.body_handles[id]))
    ELSE IF IsSome(parent_entities[id]) /\ BodyLive(Unwrap(parent_entities[id]))
         THEN part_handle(Unwrap(physics.body_handles[Unwrap(parent_entities[id])]))
         ELSE ground

\* C7 (as stated): the parent of every created collider is ClaimedParent, so
\* that a stale own body handle falls through to the related entity's body.
C7_ClaimedChain ==
    \A id \in Index : Added(id) => ColliderOf(id).parent = ClaimedParent(id)

\* C7 (amended): the parent of a created collider is the own body if its
\* handle is registered and the body is alive; ground if the own handle is
\* registered but the body is gone, whatever the PhysicsParent; with no own
\* handle, the related entity's body if that handle is registered and the
\* body alive; ground in every other case.
C7_ParentChain ==
    \A id \in Index :
        Added(id) =>
            ColliderOf(id).parent =
                CASE BodyLive(id) -> part_handle(Unwrap(physics.body_handles[id]))
                  [] IsSome(physics.body_handles[id]) /\ ~BodyLive(id) -> ground
                  [] /\ ~IsSome(physics.body_handles[id])
                     /\ IsSome(parent_entities[id])
                     /\ BodyLive(Unwrap(parent_entities[id]))
                       -> part_handle(Unwrap(physics.body_handles[Unwrap(parent_entities[id])]))
                  [] OTHER -> ground

C7_Witness ==
    \E id \in Index :
        /\ Added(id)
        /\ IsSome(physics.body_handles[id]) /\ ~BodyLive(id)
        /\ IsSome(parent_entities[id]) /\ BodyLive(Unwrap(parent_entities[id]))
        /\ is_ground(ColliderOf(id).parent)

\* C8: a collider created on ground is placed at position + offset_from_parent,
\* component by component; one created on a body is placed at offset_from_parent
\* alone, whatever the Position.
C8_Placement ==
    \A id \in Index :
        Added(id) =>
            ColliderOf(id).translation =
                IF is_ground(ColliderOf(id).parent)
                THEN <<Unwrap(positions[id])[1] + Unwrap(physics_colliders[id]).offset_from_parent[1],
                       Unwrap(positions[id])[2] + Unwrap(physics_colliders[id]).offset_from_parent[2],
                       Unwrap(positions[id])[3] + Unwrap(physics_colliders[id]).offset_from_parent[3]>>
                ELSE Unwrap(physics_colliders[id]).offset_from_parent

C8_Witness ==
    \E id, other \in Index :
        /\ Added(id) /\ Added(other)
        /\ is_ground(ColliderOf(id).parent)
        /\ ColliderOf(id).translation # Unwrap(physics_colliders[id]).offset_from_parent
        /\ ~is_ground(ColliderOf(other).parent)
        /\ positions[id] # positions[other]
        /\ ColliderOf(other).translation = Unwrap(physics_colliders[other]).offset_from_parent

\* =============================================== the channels and their readers
\* SpecCursor keeps the two event channels as they are recorded and every
\* registered reader's place in them, and lets NumEngines systems run over
\* the same storages and the same Physics resource.
Event(kind, id) == [kind |-> kind, id |-> id]

\* the extractor's classification of a batch, one event after the other
RECURSIVE fold_events(_, _)
fold_events(channel, batch) ==
    IF batch = <<>> THEN channel
    ELSE fold_events(single_write(channel, Head(batch).kind, Head(batch).id),
                     Tail(batch))

\* the extractor drains what was recorded since the reader's place and
\* advances the reader to the end of the drained range
read_events(channel, reader_id) ==
    [events |-> SubSeq(channel, reader_id + 1, Len(channel)),
     drained |-> [k \in 1..(Len(channel) - reader_id) |-> reader_id + k],
     reader_id |-> Len(channel)]

\* The two extractions through copies of the reader ids: the system's own
\* reader ids stay where they were.
run_read_Copy(chans, rids) ==
    CHOOSE r \in
      {[pe |-> iterate_component_events(fold_events(EmptyChannel, p.events)),
        ce |-> iterate_component_events(fold_events(EmptyChannel, c.events)),
        drained |-> [positions |-> p.drained, physics_colliders |-> c.drained],
        reader_ids |-> rids] :
       p \in {read_events(chans.positions, rids.positions)},
       c \in {read_events(chans.physics_colliders, rids.physics_colliders)}} : TRUE

\* lines 50-59: the two extractions, each through the reader id the system
\* keeps (as_mut: the advanced reader is the one kept for the next pass)
run_read(chans, rids) ==
    CHOOSE r \in
      {[pe |-> iterate_component_events(fold_events(EmptyChannel, p.events)),
        ce |-> iterate_component_events(fold_events(EmptyChannel, c.events)),
        drained |-> [positions |-> p.drained, physics_colliders |-> c.drained],
        reader_ids |-> [positions |-> p.reader_id,
                        physics_colliders |-> c.reader_id]] :
       p \in {read_events(chans.positions, rids.positions)},
       c \in {read_events(chans.physics_colliders, rids.physics_colliders)}} : TRUE

\* the ids of S in ascending order
Ascending(S) ==
    CHOOSE s \in [1..Cardinality(S) -> S] : \A i, j \in DOMAIN s : i < j => s[i] < s[j]

\* the Modified events the join of one pass recorded, in the order of the join
Emitted(channel) ==
    [k \in 1..Cardinality({i \in Index : channel[i] # "none"}) |->
        Event("Modified", Ascending({i \in Index : channel[i] # "none"})[k])]

\* lines 47-100 for system e: as run, with the events read from the channels
\* through e's readers and the join's Modified events recorded on the channel
run_engine(e, strict, refused) ==
    /\ fault = "none"
    /\ Len(delivered[e].positions) < MaxTicks
    /\ \E rd \in {run_read(channels, reader_ids[register_reader(e)])} :
         \E st \in {RunLoop([physics |-> physics,
                             physics_colliders |-> physics_colliders,
                             channel |-> EmptyChannel, ops |-> NoOps,
                             fault |-> "none"],
                            Joined(positions, physics_colliders, rd.pe, rd.ce),
                            positions, parent_entities, rd.pe, rd.ce,
                            strict, refused)} :
            /\ Len(channels.positions) + Len(channels.physics_colliders)
                  + Len(Emitted(st.channel)) <= MaxLog
            /\ physics' = st.physics
            /\ physics_colliders' = st.physics_colliders
            /\ channels' = [channels EXCEPT
                   !.physics_colliders = @ \o Emitted(st.channel)]
            /\ reader_ids' = [reader_ids EXCEPT ![register_reader(e)] = rd.reader_ids]
            /\ delivered' = [delivered EXCEPT
                   ![e].positions = Append(@, rd.drained.positions),
                   ![e].physics_colliders = Append(@, rd.drained.physics_colliders)]
            /\ ops' = st.ops
            /\ fault' = st.fault
            /\ cascaded' = cascaded \ LiveHandles(st.physics.world)
    /\ engine' = e
    /\ step' = "run"
    /\ UNCHANGED <<positions, parent_entities, positions_channel,
                   physics_colliders_channel>>

\* the storage operations of the game code, recorded on the channels
RecordInsertPosition(id, v) ==
    /\ fault = "none"
    /\ Len(channels.positions) + Len(channels.physics_colliders) < MaxLog
    /\ positions' = [positions EXCEPT ![id] = Some(v)]
    /\ channels' = [channels EXCEPT !.positions = Append(@,
           Event(IF IsSome(positions[id]) THEN "Modified" ELSE "Inserted", id))]
    /\ step' = "edit" /\ ops' = NoOps
    /\ UNCHANGED <<parent_entities, physics_colliders, positions_channel,
                   physics_colliders_channel, physics, fault, cascaded,
                   reader_ids, delivered, engine>>

RecordRemovePosition(id) ==
    /\ fault = "none"
    /\ Len(channels.positions) + Len(channels.physics_colliders) < MaxLog
    /\ IsSome(positions[id])
    /\ positions' = [positions EXCEPT ![id] = None]
    /\ channels' = [channels EXCEPT !.positions = Append(@, Event("Removed", id))]
    /\ step' = "edit" /\ ops' = NoOps
    /\ UNCHANGED <<parent_entities, physics_colliders, positions_channel,
                   physics_colliders_channel, physics, fault, cascaded,
                   reader_ids, delivered, engine>>

RecordInsertCollider(id, c) ==
    /\ fault = "none"
    /\ Len(channels.positions) + Len(channels.physics_colliders) < MaxLog
    /\ physics_colliders' = [physics_colliders EXCEPT ![id] = Some(c)]
    /\ channels' = [channels EXCEPT !.physics_colliders = Append(@,
           Event(IF IsSome(physics_colliders[id]) THEN "Modified" ELSE "Inserted", id))]
    /\ step' = "edit" /\ ops' = NoOps
    /\ UNCHANGED <<positions, parent_entities, positions_channel,
                   physics_colliders_channel, physics, fault, cascaded,
                   reader_ids, delivered, engine>>

RecordRemoveCollider(id) ==
    /\ fault = "none"
    /\ Len(channels.positions) + Len(channels.physics_colliders) < MaxLog
    /\ IsSome(physics_colliders[id])
    /\ physics_colliders' = [physics_colliders EXCEPT ![id] = None]
    /\ channels' = [channels EXCEPT
           !.physics_colliders = Append(@, Event("Removed", id))]
    /\ step' = "edit" /\ ops' = NoOps
    /\ UNCHANGED <<positions, parent_entities, positions_channel,
                   physics_colliders_channel, physics, fault, cascaded,
                   reader_ids, delivered, engine>>

NextCursor ==
    \/ \E e \in Engines, strict \in BOOLEAN, refused \in SUBSET Index :
          run_engine(e, strict, refused)
    \/ \E id \in Index, v \in GamePosVals : RecordInsertPosition(id, v)
    \/ \E id \in Index : RecordRemovePosition(id)
    \/ \E id \in Index, s \in ShapeVals, o \in OffVals, g \in GroupVals :
          RecordInsertCollider(id, PhysicsColliderBuilder(s, o, g))
    \/ \E id \in Index : RecordRemoveCollider(id)

SpecCursor == Init /\ [][NextCursor]_vars

\* the events of all batches, in the order they were handed over
RECURSIVE Flatten(_)
Flatten(batches) ==
    IF batches = <<>> THEN <<>> ELSE Head(batches) \o Flatten(Tail(batches))

\* C11: cursor monotonicity. When a system has made a pass, the events its
\* passes were handed so far are exactly the events recorded on the channel
\* before that pass, each one once and in the order recorded: an event is
\* handed over by the first pass after it was recorded and by no later one.
C11_CursorMonotonic ==
    [][\A e \in Engines, s \in Stores :
          (step' = "run" /\ engine' = e)
             => Flatten(delivered'[e][s]) = [k \in 1..Len(channels[s]) |-> k]]_vars

\* a system has made two passes in a row and each was handed collider events
C11_Witness ==
    \E e \in Engines :
       /\ step = "run" /\ engine = e /\ fault = "none"
       /\ Len(delivered[e].physics_colliders) >= 2
       /\ delivered[e].physics_colliders[1] # <<>>
       /\ delivered[e].physics_colliders[2] # <<>>

\* C15: independent cursors. Whatever the interleaving of the systems'
\* passes, every system is handed the recorded events of each channel from
\* the first on, without a gap and without a repetition: no pass of another
\* system takes an event away from it.
C15_IndependentCursors ==
    \A e \in Engines, s \in Stores :
       /\ Flatten(delivered[e][s]) = [k \in 1..Len(Flatten(delivered[e][s])) |-> k]
       /\ Len(Flatten(delivered[e][s])) <= Len(channels[s])
       /\ Len(delivered[e][s]) > 0 =>
             Len(Flatten(delivered[e][s])) = reader_ids[register_reader(e)][s]

\* two systems have made passes one between the other's, and each was handed
\* events recorded on the collider channel
C15_Witness ==
    /\ Len(delivered[1].physics_colliders) >= 2
    /\ Len(delivered[2].physics_colliders) >= 1
    /\ delivered[1].physics_colliders[2] # <<>>
    /\ Flatten(delivered[2].physics_colliders) # <<>>
    /\ engine = 1

\* ============================================== claims on the run pass, continued
\* the live colliders of the world that carry id as user_data
CollidersOf(world, id) ==
    {h \in LiveHandles(world) : Unwrap(world.colliders[h]).user_data = id}

\* the id at which the last pass stopped with a panic (0: it completed)
PanickedAt(f, o) ==
    IF f = "none" THEN 0
    ELSE CHOOSE i \in Index : o[i] # <<>> /\ \A j \in Index : o[j] # <<>> => j <= i

\* C12: stale-handle recovery on insert. When a pass invokes add_collider for
\* an id that has a registered handle, and the world declines nothing, the
\* creation proceeds (the pass does not end in the removal of the old
\* collider) and afterwards the id is registered with a live collider that
\* carries the id, the only collider of the world that does.
C12_StaleHandleRecovery ==
    [][\A id \in Index :
          (/\ step' = "run"
           /\ fault' # "unwrap_on_refused_build"
           /\ IsSome(physics.collider_handles[id])
           /\ ops'[id] # <<>> /\ Head(ops'[id]) = "add")
          => /\ ~(fault' = "remove_nonexistent_collider" /\ PanickedAt(fault', ops') = id)
             /\ IsSome(physics'.collider_handles[id])
             /\ CollidersOf(physics'.world, id)
                    = {Unwrap(physics'.collider_handles[id])}]_vars

\* C13 as claimed: when the world declines to construct the collider, the
\* pass ends in the panic and the id has neither a registered handle nor a
\* handle cached on its component; a pass that invoked add_collider and
\* completed did register a handle (nothing is passed over).
C13_RefusalLeavesNoHandle ==
    step = "run" =>
      \A id \in Index :
        (ops[id] # <<>> /\ Head(ops[id]) = "add") =>
           IF fault = "unwrap_on_refused_build" /\ PanickedAt(fault, ops) = id
           THEN /\ physics.collider_handles[id] = None
                /\ Unwrap(physics_colliders[id]).handle = None
           ELSE fault = "none" => IsSome(physics.collider_handles[id])

\* C13, amended: when the world declines to construct the collider, the pass
\* ends in the panic, the id has no registered handle and no collider in the
\* world, and its component is as it was before the pass (it caches a handle
\* exactly if it did before); a pass that invoked add_collider and completed
\* did register a handle.
C13_RefusalSurfaced ==
    [][step' = "run" =>
         \A id \in Index :
           (ops'[id] # <<>> /\ Head(ops'[id]) = "add") =>
              IF fault' = "unwrap_on_refused_build" /\ PanickedAt(fault', ops') = id
              THEN /\ physics'.collider_handles[id] = None
                   /\ CollidersOf(physics'.world, id) = {}
                   /\ physics_colliders'[id] = physics_colliders[id]
              ELSE fault' = "none" => IsSome(physics'.collider_handles[id])]_vars

\* a pass ended in the panic of a declined construction, for an id whose
\* component had a handle cached by an earlier pass
C13_Witness ==
    /\ step = "run"
    /\ fault = "unwrap_on_refused_build"
    /\ IsSome(Unwrap(physics_colliders[PanickedAt(fault, ops)]).handle)

\* ===================================================== remove_collider applied
\* SpecRemove starts as SpecAdd does, lets the world remove bodies with
\* their colliders, and takes the removed branch of run (lines 95-98) for
\* an id directly.
RemovedBranch(id) ==
    /\ fault = "none"
    /\ physics' = remove_collider(id, physics)
    /\ step' = "remove"
    /\ ops' = [NoOps EXCEPT ![id] = <<"remove">>]
    /\ UNCHANGED <<positions, parent_entities, physics_colliders, positions_channel,
                   physics_colliders_channel, fault, cascaded>>
    /\ UNCHANGED cursorVars

NextRemove ==
    \/ \E strict \in BOOLEAN, refused \in SUBSET Index : run(strict, refused)
    \/ \E b \in Index, dereg \in BOOLEAN : RemoveBody(b, dereg)
    \/ \E id \in Index : RemovedBranch(id)

SpecRemove == InitAdd /\ [][NextRemove]_vars

\* C14: the remove operation. With no handle registered for the id nothing
\* changes. With a handle registered the id is deregistered whether or not
\* the world still has the collider, no other registry entry and no body
\* changes, and the world loses exactly that collider when it still had it
\* and is left alone when it had not.
C14_RemoveContract ==
    [][\A id \in Index :
          (step' = "remove" /\ ops'[id] = <<"remove">>) =>
             IF ~IsSome(physics.collider_handles[id])
             THEN physics' = physics
             ELSE /\ physics'.collider_handles =
                        [physics.collider_handles EXCEPT ![id] = None]
                  /\ physics'.body_handles = physics.body_handles
                  /\ physics'.world.bodies = physics.world.bodies
                  /\ IF Unwrap(physics.collider_handles[id]) \in LiveHandles(physics.world)
                     THEN /\ LiveHandles(physics'.world) = LiveHandles(physics.world)
                                 \ {Unwrap(physics.collider_handles[id])}
                          /\ \A h \in LiveHandles(physics'.world) :
                                physics'.world.colliders[h] = physics.world.colliders[h]
                     ELSE physics'.world = physics.world]_vars

\* the removal was applied to an id whose registered collider the world had
\* already removed with its body: the id is deregistered, the world untouched
C14_Witness ==
    /\ step = "remove"
    /\ \E id \in Index :
          /\ ops[id] = <<"remove">>
          /\ physics.collider_handles[id] = None
          /\ IsSome(physics_colliders[id])
          /\ IsSome(Unwrap(physics_colliders[id]).handle)
          /\ Unwrap(Unwrap(physics_colliders[id]).handle) \in cascaded

\* ================================================ frame and domain of a pass
\* C16: bodies are not managed here. No pass, however it ends, changes an
\* entry of body_handles or the set of rigid bodies of the world.
C16_BodiesNotManaged ==
    [][step' = "run" =>
         /\ physics'.body_handles = physics.body_handles
         /\ physics'.world.bodies = physics.world.bodies]_vars

\* a pass created the collider of an id that has a registered, living body
\* and attached it to that body
C16_Witness ==
    /\ step = "run" /\ fault = "none"
    /\ \E id \in Index :
          /\ ops[id] # <<>> /\ Head(ops[id]) = "add"
          /\ IsSome(physics.body_handles[id])
          /\ Unwrap(physics.body_handles[id]) \in physics.world.bodies
          /\ \E h \in CollidersOf(physics.world, id) :
                Unwrap(physics.world.colliders[h]).parent
                   = part_handle(Unwrap(physics.body_handles[id]))

\* C18: dispatch domain. A pass invokes an operation for an id only if the
\* id is in one of the six event sets the pass read and the entity has both
\* a Position and a PhysicsCollider when the pass runs.
C18_DispatchDomain ==
    [][step' = "run" =>
         \A id \in Index :
            ops'[id] # <<>> =>
               /\ id \in EventUnion(PE, CE)
               /\ IsSome(positions[id])
               /\ IsSome(physics_colliders[id])]_vars

\* a pass gave an operation to an id that has both components and none to
\* an id whose PhysicsCollider was inserted and read while it has no Position
C18_Witness ==
    /\ step = "run" /\ fault = "none"
    /\ \E id, other \in Index :
          /\ ops[id] # <<>>
          /\ ops[other] = <<>>
          /\ ~IsSome(positions[other])
          /\ IsSome(physics_colliders[other])
          /\ ~IsSome(Unwrap(physics_colliders[other]).handle)
          /\ physics_colliders_channel[other] = "none"

\* C17: update propagates collision groups. After a completed pass that
\* invoked update_collider for an id, every live collider of the world that
\* was created for the id has the collision_groups of the id's
\* PhysicsCollider component.
C17_UpdatePropagatesGroups ==
    (step = "run" /\ fault = "none") =>
       \A id \in Index :
          (\E k \in DOMAIN ops[id] : ops[id][k] = "update") =>
             \A h \in CollidersOf(physics.world, id) :
                Unwrap(physics.world.colliders[h]).collision_groups
                   = Unwrap(physics_colliders[id]).collision_groups

\* C19: registry and component cache agree. After every completed pass, for
\* every entity that has a PhysicsCollider, the handle cached on the
\* component is the handle collider_handles holds for the entity: both none,
\* or both the same handle.
C19_RegistryCacheAgree ==
    (step = "run" /\ fault = "none") =>
       \A id \in Index :
          IsSome(physics_colliders[id]) =>
             Unwrap(physics_colliders[id]).handle = physics.collider_handles[id]

\* C20: isolation and injectivity. In every reachable state no two ids are
\* registered with the same handle, and a registered handle whose collider
\* the world has names a collider that carries the id it is registered under.
C20_IsolationInjectivity ==
    /\ \A i, j \in Index :
          (i # j /\ IsSome(physics.collider_handles[i]))
             => physics.collider_handles[i] # physics.collider_handles[j]
    /\ \A i \in Index :
          (/\ IsSome(physics.collider_handles[i])
           /\ Unwrap(physics.collider_handles[i]) \in LiveHandles(physics.world))
          => Unwrap(physics.world.colliders[
                 Unwrap(physics.collider_handles[i])]).user_data = i
====
